---- MODULE Spec2Model ----
(***************************************************************************)
(* A model of Part3/app.py: the TOPSIS engine topsis_calculate and the     *)
(* Flask handler submit with its e-mail thread.                            *)
(*                                                                         *)
(* Numbers.  The engine works on IEEE doubles.  A double is modelled as a  *)
(* record [k, n]: k = "fin" (a finite number with integer numerator n),    *)
(* k = "nan", or k = "inf" (n = 1 or -1, the sign).  Rounding is not       *)
(* modelled: finite arithmetic is exact.  Square roots are never taken:    *)
(* a cell of column j of norm_data / weighted_data with numerator n stands *)
(* for n / sqrt(q[j]), q[j] the column's sum of squares, and a distance is *)
(* kept as its square over the common denominator q[1] * ... * q[n].  A    *)
(* score dist_worst / (dist_best + dist_worst) is a strictly increasing    *)
(* function of the ratio dist_worst^2 : dist_best^2, so it is kept as that *)
(* ratio in lowest terms.                                                  *)
(***************************************************************************)
EXTENDS Integers, Sequences, FiniteSets, TLC

VARIABLES
    pc,            \* engine run: "call" before topsis_calculate, "returned" after
    input_file,    \* the table pd.read_csv(input_file) yields
    weights_str,   \* the weights string, as its pieces between commas
    impacts_str,   \* the impacts string, as its pieces between commas
    output_file,   \* the file at output_file: [exists, ncols, rows]
    raised,        \* the exception topsis_calculate raised, "none" if it returned
    req,           \* submit: the form of each request
    rpc,           \* submit: each request's position in the handler
    uploads,       \* submit: the files under uploads/, by file name
    result,        \* submit: results/Result.csv
    pending,       \* submit: the table a running df.to_csv has yet to finish
    response,      \* submit: what each request's caller received
    epc,           \* each request's e-mail thread: "none", "started", "finished"
    attached       \* what each e-mail thread read from attachment_path

engine_vars == <<pc, input_file, weights_str, impacts_str, output_file, raised>>
web_vars == <<req, rpc, uploads, result, pending, response, epc, attached>>
vars == <<pc, input_file, weights_str, impacts_str, output_file, raised,
          req, rpc, uploads, result, pending, response, epc, attached>>

\* Largest number of alternatives (rows) of an enumerated table.
MaxRows == 3
\* Largest criterion value of an enumerated table (values are 0..MaxVal).
MaxVal == 1

----------------------------------------------------------------------------
(* Doubles *)

Fin(n) == [k |-> "fin", n |-> n]
NaN == [k |-> "nan", n |-> 0]
Inf(s) == [k |-> "inf", n |-> s]

Sign(n) == IF n > 0 THEN 1 ELSE IF n < 0 THEN -1 ELSE 0

\* x * y
Mul(x, y) ==
    IF x.k = "nan" \/ y.k = "nan" THEN NaN
    ELSE IF x.k = "fin" /\ y.k = "fin" THEN Fin(x.n * y.n)
    ELSE IF Sign(x.n) * Sign(y.n) = 0 THEN NaN
    ELSE Inf(Sign(x.n) * Sign(y.n))

\* x - y
Sub(x, y) ==
    IF x.k = "nan" \/ y.k = "nan" THEN NaN
    ELSE IF x.k = "fin" /\ y.k = "fin" THEN Fin(x.n - y.n)
    ELSE IF x.k = "inf" /\ y.k = "inf"
         THEN (IF x.n = y.n THEN NaN ELSE Inf(x.n))
    ELSE IF x.k = "inf" THEN Inf(x.n)
    ELSE Inf(-y.n)

\* x ** 2
Sq(x) ==
    IF x.k = "nan" THEN NaN
    ELSE IF x.k = "fin" THEN Fin(x.n * x.n)
    ELSE Inf(1)

\* x <= y, for x and y that are not NaN
Le(x, y) ==
    \/ x.k = "inf" /\ x.n < 0
    \/ y.k = "inf" /\ y.n > 0
    \/ x.k = "fin" /\ y.k = "fin" /\ x.n <= y.n

RECURSIVE GCD(_, _)
GCD(a, b) == IF b = 0 THEN a ELSE GCD(b, a % b)

----------------------------------------------------------------------------
(* Tokens: the text of a cell, of a weight and of an impact *)

Digits == <<"0", "1", "2", "3", "4">>
IsDigit(tok) == \E d \in 1..Len(Digits) : Digits[d] = tok
DigitValue(tok) == (CHOOSE d \in 1..Len(Digits) : Digits[d] = tok) - 1

\* str.strip()
strip(tok) ==
    CASE tok = " 2" -> "2"
      [] tok = " - " -> "-"
      [] OTHER -> tok

\* pd.to_numeric(cell, errors="coerce")
to_numeric(tok) ==
    IF IsDigit(tok) THEN Fin(DigitValue(tok)) ELSE NaN

\* whether float(tok) returns
IsFloat(tok) ==
    IsDigit(tok) \/ tok \in {"-1", "nan", "inf"}

\* float(tok)
float(tok) ==
    CASE tok = "-1" -> Fin(-1)
      [] tok = "nan" -> NaN
      [] tok = "inf" -> Inf(1)
      [] OTHER -> Fin(DigitValue(tok))

----------------------------------------------------------------------------
(* Tables.  A table is [ncols, rows]: rows is a sequence of rows, a row a   *)
(* sequence of ncols cell texts, the alternative's label first.  A file is  *)
(* [exists, ncols, rows]; a row of a result file is [cells, score, rank].   *)

Absent == [exists |-> FALSE, ncols |-> 0, rows |-> <<>>]

RECURSIVE SumTo(_, _)
\* f[1] + ... + f[n]
SumTo(f, n) == IF n = 0 THEN 0 ELSE f[n] + SumTo(f, n - 1)

RECURSIVE Tuple(_, _)
\* The function f on 1..n as the tuple <<f[1], ..., f[n]>>: the same value, with
\* every entry computed once.
Tuple(f, n) == IF n = 0 THEN <<>> ELSE Append(Tuple(f, n - 1), f[n])

RECURSIVE ProdTo(_, _)
\* f[1] * ... * f[n]
ProdTo(f, n) == IF n = 0 THEN 1 ELSE f[n] * ProdTo(f, n - 1)

\* data = df.iloc[:, 1:].copy(), each column through pd.to_numeric
criteria(df) ==
    Tuple([i \in 1..Len(df.rows) |->
              Tuple([j \in 1..(df.ncols - 1) |-> to_numeric(df.rows[i][j + 1])], df.ncols - 1)],
          Len(df.rows))

\* data.isnull().values.any()
isnull_any(data) ==
    \E i \in DOMAIN data : \E j \in DOMAIN data[i] : data[i][j].k = "nan"

\* weights = [w.strip() for w in wstr.split(",")], and the same for impacts
split_strip(str) == Tuple([p \in 1..Len(str) |-> strip(str[p])], Len(str))

\* The mutant of validate: the impacts are checked before the weights are parsed.
validate_impacts_first(df, wstr, istr) ==
    LET weights == split_strip(wstr)
        impacts == split_strip(istr)
    IN  IF df.ncols < 3 THEN "Input file must contain 3 or more columns"
        ELSE IF isnull_any(criteria(df))
             THEN "All criteria columns must contain numeric values."
        ELSE IF Len(weights) # Len(impacts) THEN "Weights and impacts count mismatch."
        ELSE IF Len(weights) # df.ncols - 1
             THEN "Weights/impacts must match criteria columns."
        ELSE IF \E p \in 1..Len(impacts) : impacts[p] \notin {"+", "-"}
             THEN "Impacts must be '+' or '-'."
        ELSE IF \E p \in 1..Len(weights) : ~IsFloat(weights[p])
             THEN "Weights must be numeric."
        ELSE "none"

\* topsis_calculate, lines 33-60: the message of the exception raised, "none" if none
validate(df, wstr, istr) ==
    LET weights == split_strip(wstr)
        impacts == split_strip(istr)
    IN  IF df.ncols < 3 THEN "Input file must contain 3 or more columns"
        ELSE IF isnull_any(criteria(df))
             THEN "All criteria columns must contain numeric values."
        ELSE IF Len(weights) # Len(impacts) THEN "Weights and impacts count mismatch."
        ELSE IF Len(weights) # df.ncols - 1
             THEN "Weights/impacts must match criteria columns."
        ELSE IF \E p \in 1..Len(weights) : ~IsFloat(weights[p])
             THEN "Weights must be numeric."
        ELSE IF \E p \in 1..Len(impacts) : impacts[p] \notin {"+", "-"}
             THEN "Impacts must be '+' or '-'."
        ELSE "none"

\* weights = np.array([float(x) for x in weights])
parse_weights(wstr) ==
    Tuple([p \in 1..Len(wstr) |-> float(strip(wstr[p]))], Len(wstr))

\* (data ** 2).sum(): each column's sum of squares
sum_squares(data, n) ==
    Tuple([j \in 1..n |-> SumTo([i \in 1..Len(data) |-> data[i][j].n * data[i][j].n], Len(data))],
          n)

\* norm_data = data / np.sqrt((data ** 2).sum()); a cell of numerator d stands for
\* d / sqrt(q[j]), and 0 / 0 is NaN
norm_data(data, q) ==
    Tuple([i \in 1..Len(data) |->
              Tuple([j \in 1..Len(q) |-> IF q[j] = 0 THEN NaN ELSE data[i][j]], Len(q))],
          Len(data))

\* The mutant of weighted_data: only the first column is weighted.
weighted_data_first_only(norm, weights) ==
    Tuple([i \in 1..Len(norm) |->
              Tuple([j \in 1..Len(weights) |->
                        IF j = 1 THEN Mul(norm[i][j], weights[j]) ELSE norm[i][j]],
                    Len(weights))],
          Len(norm))

\* weighted_data = norm_data * weights
weighted_data(norm, weights) ==
    Tuple([i \in 1..Len(norm) |->
              Tuple([j \in 1..Len(weights) |-> Mul(norm[i][j], weights[j])], Len(weights))],
          Len(norm))

\* Series.max(): the largest entry that is not NaN, NaN if there is none
col_max(weighted, j) ==
    LET S == {weighted[i][j] : i \in 1..Len(weighted)} \ {NaN}
    IN  IF S = {} THEN NaN ELSE CHOOSE x \in S : \A y \in S : Le(y, x)

\* Series.min()
col_min(weighted, j) ==
    LET S == {weighted[i][j] : i \in 1..Len(weighted)} \ {NaN}
    IN  IF S = {} THEN NaN ELSE CHOOSE x \in S : \A y \in S : Le(x, y)

\* The mutant of ideal_points: the impacts are ignored, every criterion is a benefit.
ideal_points_all_benefit(weighted, impacts) ==
    [best |-> Tuple([j \in 1..Len(impacts) |-> col_max(weighted, j)], Len(impacts)),
     worst |-> Tuple([j \in 1..Len(impacts) |-> col_min(weighted, j)], Len(impacts))]

\* ideal_best and ideal_worst, lines 71-83
ideal_points(weighted, impacts) ==
    LET n == Len(impacts)
        hi == Tuple([j \in 1..n |-> col_max(weighted, j)], n)
        lo == Tuple([j \in 1..n |-> col_min(weighted, j)], n)
    IN  [best |-> Tuple([j \in 1..n |-> IF impacts[j] = "+" THEN hi[j] ELSE lo[j]], n),
         worst |-> Tuple([j \in 1..n |-> IF impacts[j] = "+" THEN lo[j] ELSE hi[j]], n)]

\* ((weighted_data - ideal) ** 2).sum(axis=1): the squared distance of each row, over
\* the common denominator of the columns; sum() skips NaN
dist_squared(weighted, ideal, q) ==
    LET n == Len(ideal)
        den == Tuple([j \in 1..n |-> IF q[j] = 0 THEN 1 ELSE q[j]], n)
        others == Tuple([j \in 1..n |-> ProdTo([c \in 1..n |-> IF c = j THEN 1 ELSE den[c]], n)], n)
        term == Tuple([i \in 1..Len(weighted) |->
                          Tuple([j \in 1..n |-> Sq(Sub(weighted[i][j], ideal[j]))], n)],
                      Len(weighted))
        scaled(i, j) == IF term[i][j].k = "fin" THEN term[i][j].n * others[j] ELSE 0
    IN  Tuple([i \in 1..Len(weighted) |->
                  IF \E j \in 1..n : term[i][j].k = "inf" THEN Inf(1)
                  ELSE Fin(SumTo([j \in 1..n |-> scaled(i, j)], n))],
              Len(weighted))

\* A score: NaN, or the ratio w : b of dist_worst^2 to dist_best^2 in lowest terms
ScoreNaN == [nan |-> TRUE, w |-> 0, b |-> 0]
Ratio(w, b) == [nan |-> FALSE, w |-> w \div GCD(w, b), b |-> b \div GCD(w, b)]

\* score = dist_worst / (dist_best + dist_worst), from the squared distances
score(best2, worst2) ==
    Tuple([i \in 1..Len(best2) |->
              IF worst2[i].k = "inf" THEN ScoreNaN
              ELSE IF best2[i].k = "inf" THEN Ratio(0, 1)
              ELSE IF best2[i].n = 0 /\ worst2[i].n = 0 THEN ScoreNaN
              ELSE Ratio(worst2[i].n, best2[i].n)],
          Len(best2))

\* s > t, for scores that are not NaN
Greater(s, t) == s.w * t.b > t.w * s.b

RECURSIVE SortDescending(_)
\* the scores of S, largest first
SortDescending(S) ==
    IF S = {} THEN <<>>
    ELSE LET top == CHOOSE s \in S : \A t \in S : ~Greater(t, s)
         IN  <<top>> \o SortDescending(S \ {top})

\* Series.rank(ascending=False, method="dense"): each score's place among the
\* distinct scores, largest first
rank_dense(scores) ==
    LET order == SortDescending({scores[i] : i \in 1..Len(scores)})
    IN  Tuple([i \in 1..Len(scores) |-> CHOOSE p \in 1..Len(order) : order[p] = scores[i]],
              Len(scores))

\* df["Topsis Score"] = score; df["Rank"] = ...; df.to_csv(output_file, index=False)
to_csv(df, scores, ranks) ==
    [exists |-> TRUE, ncols |-> df.ncols + 2,
     rows |-> [i \in 1..Len(df.rows) |->
                 [cells |-> df.rows[i], score |-> scores[i], rank |-> ranks[i]]]]

\* topsis_calculate, lines 64-89: the score of every row
topsis_score(data, weights, impacts) ==
    LET q == sum_squares(data, Len(weights))
        weighted == weighted_data(norm_data(data, q), weights)
        ideal == ideal_points(weighted, impacts)
        dist_best == dist_squared(weighted, ideal.best, q)
        dist_worst == dist_squared(weighted, ideal.worst, q)
    IN  score(dist_best, dist_worst)

\* The mutant of topsis_calculate: the table is written before the inputs are checked.
topsis_calculate_writes_first(df, wstr, istr, file) ==
    LET err == validate(df, wstr, istr)
        blank == Tuple([i \in 1..Len(df.rows) |-> ScoreNaN], Len(df.rows))
    IN  IF err # "none"
        THEN [raised |-> err, file |-> to_csv(df, blank, [i \in 1..Len(df.rows) |-> 0])]
        ELSE LET scores == topsis_score(criteria(df), parse_weights(wstr), split_strip(istr))
             IN  IF \E i \in 1..Len(scores) : scores[i].nan
                 THEN [raised |-> "Cannot convert non-finite values (NA or inf) to integer",
                       file |-> file]
                 ELSE [raised |-> "none", file |-> to_csv(df, scores, rank_dense(scores))]

\* topsis_calculate: the exception it raises ("none" if it returns) and the file at
\* output_file afterwards, `file` being the one before.  Series.astype(int) raises on
\* the NaN rank of a NaN score.
topsis_calculate(df, wstr, istr, file) ==
    LET err == validate(df, wstr, istr)
    IN  IF err # "none"
        THEN [raised |-> err, file |-> file]
        ELSE LET scores == topsis_score(criteria(df), parse_weights(wstr), split_strip(istr))
             IN  IF \E i \in 1..Len(scores) : scores[i].nan
                 THEN [raised |-> "Cannot convert non-finite values (NA or inf) to integer",
                       file |-> file]
                 ELSE [raised |-> "none", file |-> to_csv(df, scores, rank_dense(scores))]

----------------------------------------------------------------------------
(* The inputs of an engine run *)

Labels == <<"A", "B", "C", "D", "E">>

\* Every table of n criteria with 0..MaxRows rows and the values 0..MaxVal.
NumericTables(n) ==
    UNION {{[ncols |-> n + 1,
             rows |-> [i \in 1..m |-> <<Labels[i]>> \o [j \in 1..n |-> Digits[f[i][j] + 1]]]]
            : f \in [1..m -> [1..n -> 0..MaxVal]]}
           : m \in 0..MaxRows}

\* The tables of the validation runs: two rows of 0, 1 or 2 criteria, and the same
\* with the last cell not a number ("x") or missing ("").
ShapeTable(n, last) ==
    LET full == <<<<"A", "1", "2">>, <<"B", "2", "1">>>>
    IN  [ncols |-> n + 1,
         rows |-> [i \in 1..2 |->
                     [c \in 1..(n + 1) |-> IF i = 2 /\ c = n + 1 /\ c > 1 /\ last # "ok"
                                           THEN last ELSE full[i][c]]]]

ShapeTables == {ShapeTable(n, last) : n \in 0..2, last \in {"ok", "x", ""}}

WeightTokens == {"1", " 2", "0", "-1", "nan", "inf", "x", ""}
ImpactTokens == {"+", "-", " - ", "*"}

\* A result an earlier run left at output_file.
Stale ==
    [exists |-> TRUE, ncols |-> 5,
     rows |-> <<[cells |-> <<"Z", "4", "4">>, score |-> Ratio(1, 1), rank |-> 1]>>]

\* One or two pieces, each any of the tokens.
Pieces(tokens) == UNION {[1..l -> tokens] : l \in 1..2}

\* Runs that vary the shape of the inputs: a table of ShapeTables, 1 or 2 weights and
\* impacts of any token, and a file at output_file that is absent or an earlier result.
ValidationInputs ==
    /\ input_file \in ShapeTables
    /\ weights_str \in Pieces(WeightTokens)
    /\ impacts_str \in Pieces(ImpactTokens)
    /\ output_file \in {Absent, Stale}

\* Runs that vary the numbers: every table of two criteria, equal weights or the
\* second twice the first, either impact, and no file at output_file.
ScoringInputs ==
    /\ input_file \in NumericTables(2)
    /\ weights_str \in {<<"1", w>> : w \in {"1", "2"}}
    /\ impacts_str \in [1..2 -> {"+", "-"}]
    /\ output_file = Absent

----------------------------------------------------------------------------
(* The engine run: one call of topsis_calculate *)

WebIdle ==
    /\ req = <<>>
    /\ rpc = <<>>
    /\ uploads = <<>>
    /\ result = Absent
    /\ pending = <<>>
    /\ response = <<>>
    /\ epc = <<>>
    /\ attached = <<>>

EngineIdle ==
    /\ pc = "idle"
    /\ input_file = [ncols |-> 0, rows |-> <<>>]
    /\ weights_str = <<>>
    /\ impacts_str = <<>>
    /\ output_file = Absent
    /\ raised = "none"

Init ==
    /\ ValidationInputs \/ ScoringInputs
    /\ pc = "call"
    /\ raised = "none"
    /\ WebIdle

TopsisCalculate ==
    /\ pc = "call"
    /\ \E run \in {topsis_calculate(input_file, weights_str, impacts_str, output_file)} :
          /\ raised' = run.raised
          /\ output_file' = run.file
    /\ pc' = "returned"
    /\ UNCHANGED <<input_file, weights_str, impacts_str>>
    /\ UNCHANGED web_vars

Next == TopsisCalculate

Spec == Init /\ [][Next]_vars

----------------------------------------------------------------------------
(* submit and the e-mail thread.  Requests run concurrently, one thread each; *)
(* uploads/ and results/Result.csv are shared by all of them.                 *)

Requests == {1, 2}

TableOne == [ncols |-> 3, rows |-> <<<<"A", "1", "0">>, <<"B", "0", "1">>>>]
TableTwo == [ncols |-> 3, rows |-> <<<<"A", "0", "1">>, <<"B", "1", "0">>, <<"C", "1", "1">>>>]
TableNarrow == [ncols |-> 2, rows |-> <<<<"A", "1">>, <<"B", "0">>>>]

\* validate_email: the pattern name@domain.tld
validate_email(email) ==
    CASE email = "u@x.org" -> TRUE
      [] OTHER -> FALSE

\* Whether file.filename ends with ".csv".
EndsWithCsv(filename) == filename \in {"a.csv", "b.csv"}

\* The forms a request may post: a CSV upload under one of two names, with or without
\* an e-mail address; no file; a file that is no CSV.
Forms ==
    {[filename |-> fn, file |-> t, weights |-> <<"1", "1">>, impacts |-> <<"+", "+">>,
      email |-> e] :
        fn \in {"a.csv", "b.csv"}, t \in {TableOne, TableTwo, TableNarrow},
        e \in {"", "u@x.org", "nobody"}}
    \cup {[filename |-> fn, file |-> TableOne, weights |-> <<"1", "1">>,
           impacts |-> <<"+", "+">>, email |-> ""] : fn \in {"", "a.txt"}}

NoResponse == [kind |-> "none", text |-> "", table |-> Absent]
ErrorPage(text) == [kind |-> "error", text |-> text, table |-> Absent]
FileResponse(file) == [kind |-> "file", text |-> "", table |-> file]

\* A file df.to_csv has opened for writing and not yet written.
Truncated == [exists |-> TRUE, ncols |-> 0, rows |-> <<>>]

InitWeb ==
    /\ EngineIdle
    /\ req \in [Requests -> Forms]
    /\ rpc = [r \in Requests |-> "start"]
    /\ uploads = [fn \in {"a.csv", "b.csv"} |-> Absent]
    /\ result = Absent
    /\ pending = [r \in Requests |-> Absent]
    /\ response = [r \in Requests |-> NoResponse]
    /\ epc = [r \in Requests |-> "none"]
    /\ attached = [r \in Requests |-> Absent]

\* submit, lines 181-193: the two checks of the upload, then file.save(input_path)
Save(r) ==
    /\ rpc[r] = "start"
    /\ IF req[r].filename = ""
       THEN /\ response' = [response EXCEPT ![r] = ErrorPage("Please upload a CSV file.")]
            /\ rpc' = [rpc EXCEPT ![r] = "done"]
            /\ UNCHANGED uploads
       ELSE IF ~EndsWithCsv(req[r].filename)
       THEN /\ response' = [response EXCEPT ![r] = ErrorPage("Only CSV files allowed.")]
            /\ rpc' = [rpc EXCEPT ![r] = "done"]
            /\ UNCHANGED uploads
       ELSE /\ uploads' = [uploads EXCEPT ![req[r].filename] =
                              [exists |-> TRUE, ncols |-> req[r].file.ncols,
                               rows |-> req[r].file.rows]]
            /\ rpc' = [rpc EXCEPT ![r] = "saved"]
            /\ UNCHANGED response
    /\ UNCHANGED <<req, result, pending, epc, attached>>
    /\ UNCHANGED engine_vars

\* submit, line 197: topsis_calculate reads the file at input_path and computes; an
\* exception becomes the error page (lines 205-206); otherwise df.to_csv opens
\* Result.csv for writing.
Calculate(r) ==
    /\ rpc[r] = "saved"
    /\ \E run \in {topsis_calculate([ncols |-> uploads[req[r].filename].ncols,
                                      rows |-> uploads[req[r].filename].rows],
                                     req[r].weights, req[r].impacts, result)} :
          IF run.raised # "none"
          THEN /\ response' = [response EXCEPT ![r] = ErrorPage(run.raised)]
               /\ rpc' = [rpc EXCEPT ![r] = "done"]
               /\ UNCHANGED <<result, pending>>
          ELSE /\ pending' = [pending EXCEPT ![r] = run.file]
               /\ result' = Truncated
               /\ rpc' = [rpc EXCEPT ![r] = "writing"]
               /\ UNCHANGED response
    /\ UNCHANGED <<req, uploads, epc, attached>>
    /\ UNCHANGED engine_vars

\* topsis_calculate, line 94: df.to_csv finishes writing Result.csv
FinishWrite(r) ==
    /\ rpc[r] = "writing"
    /\ result' = pending[r]
    /\ rpc' = [rpc EXCEPT ![r] = "computed"]
    /\ UNCHANGED <<req, uploads, pending, response, epc, attached>>
    /\ UNCHANGED engine_vars

\* The mutant of notify: send_email is called in the handler's own thread and its
\* failure is not caught there, so it reaches submit's except clause.
notify_inline(r, outcome) ==
    IF req[r].email # "" /\ validate_email(req[r].email)
    THEN /\ epc' = [epc EXCEPT ![r] = outcome]
         /\ attached' = [attached EXCEPT ![r] = IF outcome = "unconfigured" THEN Absent ELSE result]
         /\ IF outcome = "failed"
            THEN /\ response' = [response EXCEPT ![r] = ErrorPage("Email failed")]
                 /\ rpc' = [rpc EXCEPT ![r] = "done"]
            ELSE /\ rpc' = [rpc EXCEPT ![r] = "notified"]
                 /\ UNCHANGED response
    ELSE /\ rpc' = [rpc EXCEPT ![r] = "notified"]
         /\ UNCHANGED <<epc, attached, response>>

\* submit, lines 200-201, and send_email_async: the e-mail thread is started for a
\* valid address and the handler goes on.  (`outcome` is what a send in this thread
\* would come to; a started thread decides its own.)
notify(r, outcome) ==
    /\ IF req[r].email # "" /\ validate_email(req[r].email)
       THEN epc' = [epc EXCEPT ![r] = "started"]
       ELSE UNCHANGED epc
    /\ rpc' = [rpc EXCEPT ![r] = "notified"]
    /\ UNCHANGED <<attached, response>>

Notify(r) ==
    /\ rpc[r] = "computed"
    /\ \E outcome \in {"unconfigured", "sent", "failed"} : notify(r, outcome)
    /\ UNCHANGED <<req, uploads, result, pending>>
    /\ UNCHANGED engine_vars

\* submit, line 203: send_file(output_path) reads Result.csv for the response
SendFile(r) ==
    /\ rpc[r] = "notified"
    /\ response' = [response EXCEPT ![r] = FileResponse(result)]
    /\ rpc' = [rpc EXCEPT ![r] = "done"]
    /\ UNCHANGED <<req, uploads, result, pending, epc, attached>>
    /\ UNCHANGED engine_vars

\* send_email in its thread: without credentials it returns at once; otherwise it
\* reads the attachment and sends, and any exception is caught and printed.
SendEmail(r) ==
    /\ epc[r] = "started"
    /\ \E outcome \in {"unconfigured", "sent", "failed"} :
          /\ epc' = [epc EXCEPT ![r] = outcome]
          /\ attached' = [attached EXCEPT ![r] =
                             IF outcome = "unconfigured" THEN Absent ELSE result]
    /\ UNCHANGED <<req, rpc, uploads, result, pending, response>>
    /\ UNCHANGED engine_vars

NextWeb ==
    \E r \in Requests :
        \/ Save(r)
        \/ Calculate(r)
        \/ FinishWrite(r)
        \/ Notify(r)
        \/ SendFile(r)
        \/ SendEmail(r)

SpecWeb == InitWeb /\ [][NextWeb]_vars

----------------------------------------------------------------------------
(* What the claims about the engine speak of *)

Returned == pc = "returned"

ValidationMessages ==
    {"Input file must contain 3 or more columns",
     "All criteria columns must contain numeric values.",
     "Weights and impacts count mismatch.",
     "Weights/impacts must match criteria columns.",
     "Weights must be numeric.",
     "Impacts must be '+' or '-'."}

\* The six conditions of the contract, each read off the inputs alone.
TooFewColumns == input_file.ncols < 3
NonNumericCell ==
    \E i \in 1..Len(input_file.rows) : \E c \in 2..input_file.ncols :
        ~IsDigit(input_file.rows[i][c])
CountsDiffer == Len(weights_str) # Len(impacts_str)
CountNotColumns == Len(weights_str) # input_file.ncols - 1
WeightNotNumeric == \E p \in 1..Len(weights_str) : ~IsFloat(strip(weights_str[p]))
ImpactNotSign == \E p \in 1..Len(impacts_str) : strip(impacts_str[p]) \notin {"+", "-"}

ValidInput ==
    ~(TooFewColumns \/ NonNumericCell \/ CountsDiffer \/ CountNotColumns
      \/ WeightNotNumeric \/ ImpactNotSign)

\* This call wrote a table with a row for every row of the input.
Written ==
    /\ raised = "none"
    /\ output_file.exists
    /\ Len(output_file.rows) = Len(input_file.rows)

WrittenScores == [i \in 1..Len(output_file.rows) |-> output_file.rows[i].score]
WrittenRanks == [i \in 1..Len(output_file.rows) |-> output_file.rows[i].rank]

\* The ranks are the dense ranking of the scores, largest score first.
DenseRanking(scores, ranks) ==
    LET distinct == {scores[i] : i \in DOMAIN scores}
    IN  /\ {ranks[i] : i \in DOMAIN scores} = 1..Cardinality(distinct)
        /\ \A i \in DOMAIN scores :
              ranks[i] = 1 + Cardinality({s \in distinct : Greater(s, scores[i])})
        /\ \A i, r \in DOMAIN scores : scores[i] = scores[r] => ranks[i] = ranks[r]
        /\ \A i \in DOMAIN scores :
              (\A r \in DOMAIN scores : ~Greater(scores[r], scores[i])) => ranks[i] = 1

\* The parsed inputs of a run that passed validation.
Data == criteria(input_file)
Weights == parse_weights(weights_str)
Impacts == split_strip(impacts_str)

\* C1: the exception raised is the one of the first of the six checks the inputs
\* violate, and an input that violates none raises no validation error.
C1_FirstViolatedCheckReported ==
    Returned =>
        /\ TooFewColumns => raised = "Input file must contain 3 or more columns"
        /\ ~TooFewColumns /\ NonNumericCell
              => raised = "All criteria columns must contain numeric values."
        /\ ~TooFewColumns /\ ~NonNumericCell /\ CountsDiffer
              => raised = "Weights and impacts count mismatch."
        /\ ~TooFewColumns /\ ~NonNumericCell /\ ~CountsDiffer /\ CountNotColumns
              => raised = "Weights/impacts must match criteria columns."
        /\ ~TooFewColumns /\ ~NonNumericCell /\ ~CountsDiffer /\ ~CountNotColumns
              /\ WeightNotNumeric
              => raised = "Weights must be numeric."
        /\ ~TooFewColumns /\ ~NonNumericCell /\ ~CountsDiffer /\ ~CountNotColumns
              /\ ~WeightNotNumeric /\ ImpactNotSign
              => raised = "Impacts must be '+' or '-'."
        /\ ValidInput => raised \notin ValidationMessages

\* C1's case: a run whose weights and impacts are both malformed reported the weights.
C1_Witness ==
    /\ Returned
    /\ WeightNotNumeric /\ ImpactNotSign
    /\ raised = "Weights must be numeric."

\* C2: a call that fails validation leaves the file at output_file as it was.
C2_ValidationFailureWritesNothing ==
    [][raised' \in ValidationMessages => output_file' = output_file]_vars

\* C2's case: a run failed validation and the earlier result is still in place.
C2_Witness ==
    /\ Returned
    /\ raised \in ValidationMessages
    /\ output_file = Stale

\* C3, as claimed: every valid input gets a table whose Rank column is the dense
\* ranking of its scores.
C3_DenseRankForEveryValidInput ==
    Returned /\ ValidInput => Written /\ DenseRanking(WrittenScores, WrittenRanks)

\* What does hold of the Rank column: whenever the call returns, the ranks written
\* are the dense ranking of the scores written.
DenseRankWhenWritten ==
    Returned /\ raised = "none" => DenseRanking(WrittenScores, WrittenRanks)

\* C4, as claimed: every input that passes validation gets a defined score and a rank
\* for every row, without an unhandled failure.
C4_DegenerateInputsHandled ==
    Returned /\ ValidInput =>
        /\ Written
        /\ \A i \in 1..Len(output_file.rows) : ~output_file.rows[i].score.nan

\* C5, as claimed: every valid input gets a table with the input's rows in the input's
\* order, every cell unchanged, and two columns appended.
C5_RowsPreservedForEveryValidInput ==
    Returned /\ ValidInput =>
        /\ Written
        /\ output_file.ncols = input_file.ncols + 2
        /\ \A i \in 1..Len(input_file.rows) : output_file.rows[i].cells = input_file.rows[i]

\* What does hold of the rows: whenever the call returns, the table written has the
\* input's rows in the input's order and two more columns.
RowsPreservedWhenWritten ==
    Returned /\ raised = "none" =>
        /\ Written
        /\ output_file.ncols = input_file.ncols + 2
        /\ \A i \in 1..Len(input_file.rows) : output_file.rows[i].cells = input_file.rows[i]

\* The positive constants the weights are rescaled by.
Scales == {2, 3}

\* No criterion column has norm 0 and no alternative has S+ = S- = 0.
NonDegenerate(data, weights, impacts) ==
    LET q == sum_squares(data, Len(weights))
        scores == topsis_score(data, weights, impacts)
    IN  /\ \A j \in 1..Len(q) : q[j] # 0
        /\ \A i \in 1..Len(scores) : ~scores[i].nan

\* The weights, each multiplied by c.
Scaled(weights, c) ==
    Tuple([j \in 1..Len(weights) |-> Mul(weights[j], Fin(c))], Len(weights))

\* C6: for a valid non-degenerate input, the scores and ranks written are those of
\* the same run with every weight multiplied by c.
C6_ScoreInvariantUnderWeightScaling ==
    Returned /\ ValidInput =>
        LET data == Data
            weights == Weights
            impacts == Impacts
        IN  NonDegenerate(data, weights, impacts) =>
                /\ Written
                /\ \A c \in Scales :
                      LET scaled == topsis_score(data, Scaled(weights, c), impacts)
                      IN  /\ scaled = WrittenScores
                          /\ rank_dense(scaled) = WrittenRanks

\* C6's case: a run with unequal weights wrote three rows with three different scores.
C6_Witness ==
    /\ Returned /\ ValidInput /\ NonDegenerate(Data, Weights, Impacts) /\ Written
    /\ Weights[1] # Weights[2]
    /\ Len(output_file.rows) = 3
    /\ Cardinality({WrittenScores[i] : i \in 1..3}) = 3

\* Column j's values are pairwise distinct.
PairwiseDistinct(data, j) ==
    \A i, r \in 1..Len(data) : i # r => data[i][j] # data[r][j]

\* The weights are all finite.
FiniteWeights(weights) == \A j \in 1..Len(weights) : weights[j].k = "fin"

\* The impacts with column j's changed to "-".
Flipped(impacts, j) == [impacts EXCEPT ![j] = "-"]

\* The order of rows a and b under the ranks: -1, 0 or 1.
RankOrder(ranks, a, b) == Sign(ranks[a] - ranks[b])

\* C7, as claimed, for tables of two or more rows and finite weights: changing the
\* impact of a column of pairwise distinct values and non-zero weight from "+" to "-"
\* changes the rank order of some pair of rows.
C7_FlipChangesRankOrder ==
    Returned /\ ValidInput /\ raised = "none" /\ Len(input_file.rows) >= 2 =>
        LET data == Data
            weights == Weights
            impacts == Impacts
        IN  FiniteWeights(weights) =>
                \A j \in 1..Len(weights) :
                    /\ PairwiseDistinct(data, j)
                    /\ weights[j] # Fin(0)
                    /\ impacts[j] = "+"
                    => LET flipped == topsis_score(data, weights, Flipped(impacts, j))
                           ranks == rank_dense(flipped)
                       IN  /\ \A i \in 1..Len(flipped) : ~flipped[i].nan
                           /\ \E a, b \in 1..Len(data) :
                                 RankOrder(ranks, a, b) # RankOrder(WrittenRanks, a, b)

\* C7, amended: with two or more rows and finite weights, changing the impact of a
\* column of pairwise distinct values and non-zero weight from "+" to "-" changes the
\* score of some row; both runs write a table.
C7_FlipChangesSomeScore ==
    Returned /\ ValidInput /\ Len(input_file.rows) >= 2 =>
        LET data == Data
            weights == Weights
            impacts == Impacts
        IN  FiniteWeights(weights) =>
                \A j \in 1..Len(weights) :
                    /\ PairwiseDistinct(data, j)
                    /\ weights[j] # Fin(0)
                    /\ impacts[j] = "+"
                    => LET flipped == topsis_score(data, weights, Flipped(impacts, j))
                       IN  /\ Written
                           /\ \A i \in 1..Len(flipped) : ~flipped[i].nan
                           /\ \E i \in 1..Len(data) : flipped[i] # WrittenScores[i]

\* C7's case: a column of distinct values and non-zero weight whose flip changes the
\* scores and leaves every row's rank as it was.
C7_Witness ==
    /\ Returned /\ ValidInput /\ Written /\ Len(input_file.rows) >= 2
    /\ \E j \in 1..Len(Weights) :
          /\ PairwiseDistinct(Data, j) /\ Weights[j].k = "fin" /\ Weights[j] # Fin(0)
          /\ Impacts[j] = "+"
          /\ topsis_score(Data, Weights, Flipped(Impacts, j)) # WrittenScores
          /\ rank_dense(topsis_score(Data, Weights, Flipped(Impacts, j))) = WrittenRanks

\* C8, as claimed: the weights that reach the computation are positive reals, one per
\* criterion column.
C8_WeightsPositive ==
    Returned /\ ValidInput =>
        /\ Len(Weights) = input_file.ncols - 1
        /\ \A j \in 1..Len(Weights) : Weights[j].k = "fin" /\ Weights[j].n > 0

----------------------------------------------------------------------------
(* What the claims about submit speak of *)

\* The table topsis_calculate writes for request r's own upload, weights and impacts.
OwnResult(r) == topsis_calculate(req[r].file, req[r].weights, req[r].impacts, Absent).file

\* C9: the e-mail thread exists only once the request's topsis_calculate has returned
\* and written; a request whose computation succeeded ends with the file as its
\* response whatever became of the e-mail; and a response, once given, stays.
C9_NotificationNeverAffectsResponse ==
    /\ [](\A r \in Requests :
            /\ epc[r] # "none" => rpc[r] \in {"notified", "done"} /\ pending[r].exists
            /\ rpc[r] = "done" /\ pending[r].exists => response[r].kind = "file")
    /\ [][\A r \in Requests :
            response[r].kind # "none" => response'[r] = response[r]]_vars

\* C9's case: one request has its file while its e-mail thread has yet to run, and
\* another has its file although its e-mail failed.
C9_Witness ==
    \E r, o \in Requests :
        /\ rpc[r] = "done" /\ response[r].kind = "file" /\ epc[r] = "started"
        /\ rpc[o] = "done" /\ response[o].kind = "file" /\ epc[o] = "failed"

\* C10, as claimed: the table a request is sent, and the one its e-mail attaches, is
\* the complete table computed from that request's own upload, weights and impacts.
C10_EachRequestGetsItsOwnResult ==
    \A r \in Requests :
        /\ response[r].kind = "file" => response[r].table = OwnResult(r)
        /\ attached[r].exists => attached[r] = OwnResult(r)

====
